---- MODULE Spec2Model ----
(***************************************************************************)
(* DragScroll (src/src/index.ts, lines 77-537): the gesture handlers, the  *)
(* drag path, the per-frame physics tick, boundary resolution, the public  *)
(* operations and the listener / animation-frame / timer registrations.    *)
(*                                                                         *)
(* Numbers: currentY, velocity and _startY are JavaScript numbers.  They   *)
(* are held here in fixed point, Unit parts to a pixel, and every product  *)
(* with a fractional coefficient is rounded to the nearest part, as IEEE   *)
(* arithmetic rounds to the nearest representable value.  Extents and      *)
(* pointer coordinates are whole pixels.                                   *)
(*                                                                         *)
(* $content.clientHeight and $content.scrollHeight are one value, contentH *)
(* (the content block has no overflow of its own).                         *)
(***************************************************************************)
EXTENDS Integers, FiniteSets, Sequences, TLC

VARIABLES
    readonly,        \* this._readonly
    containerH,      \* this.$container.clientHeight, pixels
    contentH,        \* this.$content.clientHeight / scrollHeight, pixels
    isDragging,      \* this.isDragging
    _startY,         \* this._startY, parts
    currentY,        \* this.currentY, parts
    velocity,        \* this.velocity, parts
    transform,       \* the y of $content.style.transform, parts
    thumb,           \* _$scrollbarThumb.style: [height, position], parts
    scrollbarShow,   \* _$scrollbar carries the class drag-scroll-show
    _lastTimestamp,  \* this._lastTimestamp, ms
    _animationId,    \* this._animationId: 0 is null, 1 and 2 frame handles
    rafPending,      \* the handle of the frame the host holds, 0 for none
    timers,          \* pending hide-scrollbar timeouts of _endDrag
    listeners,       \* registered listeners: <<event type, function>>
    destroyed,       \* destroy() has been called
    destroys,        \* calls of destroy() so far
    last,            \* the operation that ran last
    emitted,         \* onChange calls made by the operation that ran last
    stats,           \* the snapshot of the latest onChange call
    notified,        \* currentY and velocity as that onChange call was made
    signals,         \* onDragStart, onDragEnd and onDragging calls made by
                     \* the operation that ran last
    containerKind,   \* the kind of value given to the constructor as
                     \* options.container
    session,         \* history of the drag session since its dragStart
    steps            \* operations run so far

vars == <<readonly, containerH, contentH, isDragging, _startY, currentY,
          velocity, transform, thumb, scrollbarShow, _lastTimestamp,
          _animationId, rafPending, timers, listeners, destroyed, destroys,
          last,
          emitted, stats, notified, signals, containerKind, session,
          steps>>

(***************************************************************************)
(* Bounds of the exploration.                                              *)
(***************************************************************************)
MaxSteps == 4
MaxTimers == 2

Coords == {400, 450, 500}          \* clientY of pointer events, pixels
Touches == {1, 2}                  \* e.touches.length
Heights == {100, 400, 1300}        \* container heights given to resize
Contents == {300, 1200}            \* content heights given to innerHtml
Targets == {-10, 0, 100, 800, 810} \* arguments of scrollToY, pixels
Times == {0, 16, 200}              \* animation-frame timestamps, ms
Observers == {"none", "destroy"}   \* what options.onChange does in a tick

(***************************************************************************)
(* Numbers.                                                                *)
(***************************************************************************)
Unit == 100

_spring == 25          \* 0.25, in hundredths
_friction == 92        \* 0.92, in hundredths
_bounceDamping == 60   \* 0.6, in hundredths
_maxVelocity == 30     \* pixels per frame
Hundred == 100
Thousand == 1000
FrameMs == 16
MaxDeltaMs == 100

Abs(n) == IF n < 0 THEN -n ELSE n
Min(a, b) == IF a < b THEN a ELSE b
Max(a, b) == IF a > b THEN a ELSE b

\* n / d rounded to the nearest integer, halves away from zero (d > 0)
RoundDiv(n, d) ==
    IF n >= 0 THEN (2 * n + d) \div (2 * d)
    ELSE -((2 * (-n) + d) \div (2 * d))

Px(p) == p * Unit

(***************************************************************************)
(* Pure helpers of the engine.                                             *)
(***************************************************************************)
\* maxScroll = $content.scrollHeight - $container.clientHeight, in parts
maxScrollOf(content, container) == Px(content) - Px(container)

\* x * bounceDamping
Damp(x) == RoundDiv(x * _bounceDamping, Hundred)

\* the velocity left as the raw delta
clampVelocityNone(v) == v

\* Math.max(Math.min(v, maxVelocity), -maxVelocity)
clampVelocity(v) == Max(Min(v, Px(_maxVelocity)), -Px(_maxVelocity))

\* the velocity handed over as it is
toFixedNone(v) == v

\* +v.toFixed(1): v rounded to one decimal
toFixed1(v) == RoundDiv(v, Unit \div 10) * (Unit \div 10)

\* canDrag without the extent test
canDragIgnoringExtent == ~readonly

\* canDrag without the readonly test
canDragIgnoringReadonly == contentH > containerH

\* get canDrag
canDrag == ~readonly /\ contentH > containerH

\* _applyTransform: boundary resolution of (y, v) for the given extents,
\* and the offset written to the content's transform
applyTransform(y, v, content, container) ==
    IF content <= container
    THEN [currentY |-> y, velocity |-> v, transform |-> 0]
    ELSE LET maxScroll == maxScrollOf(content, container) IN
         IF y < 0
         THEN [currentY |-> Damp(y), velocity |-> Damp(v),
               transform |-> -Damp(y)]
         ELSE IF y > maxScroll
         THEN [currentY |-> maxScroll + Damp(y - maxScroll),
               velocity |-> Damp(v),
               transform |-> -(maxScroll + Damp(y - maxScroll))]
         ELSE [currentY |-> y, velocity |-> v, transform |-> -y]

\* _updateScrollbar: the thumb's height and offset for position y
\* the thumb height without its lower limit
thumbHeightUnfloored(content, container) ==
    RoundDiv(Px(container) * container, content)

\* Math.max((containerHeight / contentHeight) * containerHeight, 20)
thumbHeightOf(content, container) ==
    Max(RoundDiv(Px(container) * container, content), Px(20))

updateScrollbar(y, content, container, old) ==
    LET maxScroll == maxScrollOf(content, container) IN
    IF maxScroll <= 0
    THEN [height |-> 0, position |-> old.position]
    ELSE LET thumbHeight == thumbHeightOf(content, container)
             \* currentY / maxScroll, in thousandths
             ratio == RoundDiv(y * Thousand, maxScroll)
         IN  [height |-> thumbHeight,
              position |-> RoundDiv(ratio * (Px(container) - thumbHeight),
                                    Thousand)]

\* _updateStats: the snapshot handed to options.onChange
updateStats(y, v) == [x |-> 0, y |-> y, velocity |-> toFixed1(v)]

\* deltaTime * 16: Math.min(timestamp - this._lastTimestamp, 100), after
\* "if (!this._lastTimestamp) this._lastTimestamp = timestamp"
elapsedMs(timestamp, lastTs) ==
    Min(timestamp - (IF lastTs = 0 THEN timestamp ELSE lastTs), MaxDeltaMs)

\* the inertial step of _animate on (y, v): friction, move, spring
inertia(y, v, elapsed, maxScroll) ==
    LET v1 == RoundDiv(v * _friction, Hundred)
        y1 == y + v1
        v2 == IF y1 < 0
              THEN v1 - RoundDiv(y1 * _spring * elapsed, Hundred * FrameMs)
              ELSE IF y1 > maxScroll
              THEN v1 - RoundDiv((y1 - maxScroll) * _spring * elapsed,
                                 Hundred * FrameMs)
              ELSE v1
    IN  [currentY |-> y1, velocity |-> v2]

\* the rest condition of _animate
atRest(y, v, maxScroll) ==
    Abs(v) < Unit \div 10 /\ y >= 0 /\ y <= maxScroll

(***************************************************************************)
(* Listener registrations.  addEventListener is given this._onX.bind(this) *)
(* and removeEventListener is given this._onX: two different functions.    *)
(***************************************************************************)
EventTypes ==
    {"mousedown", "touchstart", "mousemove", "touchmove", "mouseup",
     "touchend"}

addEventListeners == {<<t, "bound">> : t \in EventTypes}

removeEventListeners(ls) == ls \ {<<t, "method">> : t \in EventTypes}

Delivered(type) == \E l \in listeners : l[1] = type

(***************************************************************************)
(* Animation frames.  requestAnimationFrame returns a handle that differs  *)
(* from the handle of the frame that is running; cancelAnimationFrame      *)
(* withdraws the pending frame when it is given that frame's handle.       *)
(***************************************************************************)
requestAnimationFrame(running) == IF running = 1 THEN 2 ELSE 1

\* a host whose cancelAnimationFrame withdraws nothing
cancelAnimationFrameNever(pending, id) == pending

cancelAnimationFrame(pending, id) == IF pending = id THEN 0 ELSE pending

NoSession == [ok |-> FALSE, p0 |-> 0, y0 |-> 0, prev |-> 0, cur |-> 0, n |-> 0]
\* no observer of the drag signals has been called
NoSignals == [onDragStart |-> 0, onDragEnd |-> 0, onDragging |-> 0]

\* the engine's values at the onChange call of the construction
NoNotice == [y |-> 0, velocity |-> 0]

NoStats == [x |-> 0, y |-> 0, velocity |-> 0]

(***************************************************************************)
(* Construction: the constructor and _init, for the options readonly,      *)
(* content and height.  _init ends with _animate(), which returns without  *)
(* requesting a frame when the content does not overflow.                  *)
(***************************************************************************)
Init ==
    /\ readonly \in BOOLEAN
    /\ containerH \in Heights
    /\ contentH \in Contents
    /\ isDragging = FALSE
    /\ _startY = 0
    /\ currentY = 0
    /\ velocity = 0
    /\ transform = 0
    /\ thumb = updateScrollbar(0, contentH, containerH,
                               [height |-> 0, position |-> 0])
    /\ scrollbarShow = FALSE
    /\ _lastTimestamp = 0
    /\ _animationId = IF contentH <= containerH THEN 0 ELSE 1
    /\ rafPending = IF contentH <= containerH THEN 0 ELSE 1
    /\ timers = 0
    /\ listeners = addEventListeners
    /\ destroyed = FALSE
    /\ destroys = 0
    /\ last = "init"
    /\ emitted = IF contentH <= containerH THEN 0 ELSE 1
    /\ stats = NoStats
    /\ notified = NoNotice
    /\ signals = NoSignals
    /\ containerKind = "div"
    /\ session = NoSession
    /\ steps = 0

\* what an operation that only reads the engine leaves alone
Ignored(op) ==
    /\ last' = op
    /\ emitted' = 0
    /\ signals' = NoSignals
    /\ UNCHANGED <<containerKind, destroys>>
    /\ UNCHANGED <<readonly, containerH, contentH, isDragging, _startY,
                   currentY, velocity, transform, thumb, scrollbarShow,
                   _lastTimestamp, _animationId, rafPending, timers,
                   listeners, destroyed, stats, notified, session>>

(***************************************************************************)
(* The drag path.                                                          *)
(***************************************************************************)
\* _startDrag(clientY)
startDrag(op, clientY) ==
    IF ~canDrag
    THEN Ignored(op)
    ELSE /\ isDragging' = TRUE
         /\ _startY' = Px(clientY)
         /\ velocity' = 0
         /\ scrollbarShow' = TRUE
         /\ session' = [ok |-> TRUE, p0 |-> currentY, y0 |-> Px(clientY),
                        prev |-> Px(clientY), cur |-> Px(clientY), n |-> 0]
         /\ last' = op
         /\ emitted' = 0
         /\ signals' = NoSignals
         /\ UNCHANGED <<containerKind, destroys>>
         /\ UNCHANGED <<readonly, containerH, contentH, currentY, transform,
                        thumb, _lastTimestamp, _animationId, rafPending,
                        timers, listeners, destroyed, stats, notified>>

\* the delta taken with the opposite sign
dragStepReversed(y, startY, clientY) ==
    [currentY |-> y + (clientY - startY),
     velocity |-> clampVelocity(clientY - startY)]

\* the position and the velocity _drag computes before boundary resolution
dragStep(y, startY, clientY) ==
    [currentY |-> y + (startY - clientY),
     velocity |-> clampVelocity(startY - clientY)]

\* _drag(clientY)
drag(op, clientY) ==
    IF ~canDrag
    THEN Ignored(op)
    ELSE LET d == dragStep(currentY, _startY, Px(clientY))
             r == applyTransform(d.currentY, d.velocity, contentH, containerH)
             maxScroll == maxScrollOf(contentH, containerH)
         IN  /\ _startY' = Px(clientY)
             /\ currentY' = r.currentY
             /\ velocity' = r.velocity
             /\ transform' = r.transform
             /\ thumb' = updateScrollbar(r.currentY, contentH, containerH, thumb)
             /\ stats' = updateStats(r.currentY, r.velocity)
             /\ notified' = [y |-> r.currentY, velocity |-> r.velocity]
             /\ emitted' = 1
             /\ signals' = NoSignals
             /\ UNCHANGED <<containerKind, destroys>>
             /\ session' = IF session.ok /\ d.currentY >= 0
                              /\ d.currentY <= maxScroll
                           THEN [session EXCEPT !.prev = session.cur,
                                                !.cur = Px(clientY),
                                                !.n = 1]
                           ELSE NoSession
             /\ last' = op
             /\ UNCHANGED <<readonly, containerH, contentH, isDragging,
                            scrollbarShow, _lastTimestamp, _animationId,
                            rafPending, timers, listeners, destroyed>>

\* _endDrag without the isDragging test, flipping the flag
endDragToggle(op) ==
    IF ~canDrag
    THEN Ignored(op)
    ELSE /\ timers < MaxTimers
         /\ isDragging' = ~isDragging
         /\ timers' = timers + 1
         /\ session' = NoSession
         /\ last' = op
         /\ emitted' = 0
         /\ signals' = NoSignals
         /\ UNCHANGED <<containerKind, destroys>>
         /\ UNCHANGED <<readonly, containerH, contentH, _startY, currentY,
                        velocity, transform, thumb, scrollbarShow,
                        _lastTimestamp, _animationId, rafPending, listeners,
                        destroyed, stats, notified>>

\* _endDrag()
endDrag(op) ==
    IF ~canDrag \/ ~isDragging
    THEN Ignored(op)
    ELSE /\ timers < MaxTimers
         /\ isDragging' = FALSE
         /\ timers' = timers + 1
         /\ session' = NoSession
         /\ last' = op
         /\ emitted' = 0
         /\ signals' = NoSignals
         /\ UNCHANGED <<containerKind, destroys>>
         /\ UNCHANGED <<readonly, containerH, contentH, _startY, currentY,
                        velocity, transform, thumb, scrollbarShow,
                        _lastTimestamp, _animationId, rafPending, listeners,
                        destroyed, stats, notified>>

(***************************************************************************)
(* The gesture handlers, run when the host delivers an event to a          *)
(* registered listener.                                                    *)
(***************************************************************************)
\* _onMouseDown(e)
OnMouseDown(clientY) ==
    /\ Delivered("mousedown")
    /\ IF ~canDrag THEN Ignored("mousedown")
       ELSE startDrag("mousedown", clientY)

\* _onTouchStart(e)
OnTouchStart(touches, clientY) ==
    /\ Delivered("touchstart")
    /\ IF ~canDrag \/ touches # 1 THEN Ignored("touchstart")
       ELSE startDrag("touchstart", clientY)

\* _onMouseMove(e)
OnMouseMove(clientY) ==
    /\ Delivered("mousemove")
    /\ IF ~canDrag \/ ~isDragging THEN Ignored("mousemove")
       ELSE drag("mousemove", clientY)

\* _onTouchMove(e)
OnTouchMove(touches, clientY) ==
    /\ Delivered("touchmove")
    /\ IF ~canDrag \/ ~isDragging \/ touches # 1 THEN Ignored("touchmove")
       ELSE drag("touchmove", clientY)

\* _onMouseUp()
OnMouseUp ==
    /\ Delivered("mouseup")
    /\ IF ~canDrag THEN Ignored("mouseup") ELSE endDrag("mouseup")

\* _onTouchEnd()
OnTouchEnd ==
    /\ Delivered("touchend")
    /\ IF ~canDrag THEN Ignored("touchend") ELSE endDrag("touchend")

\* the callback of the setTimeout of _endDrag, 1500 ms after it
HideTimer ==
    /\ timers > 0
    /\ timers' = timers - 1
    /\ scrollbarShow' = IF ~isDragging THEN FALSE ELSE scrollbarShow
    /\ last' = "timer"
    /\ emitted' = 0
    /\ signals' = NoSignals
    /\ UNCHANGED <<containerKind, destroys>>
    /\ UNCHANGED <<readonly, containerH, contentH, isDragging, _startY,
                   currentY, velocity, transform, thumb, _lastTimestamp,
                   _animationId, rafPending, listeners, destroyed, stats,
                   notified, session>>

(***************************************************************************)
(* The physics tick: _animate(timestamp), the callback of the requested    *)
(* animation frame.  The host's timestamps never decrease.                 *)
(*                                                                         *)
(* options.onChange runs inside _updateStats, before the tick's rest test  *)
(* and before it requests the next frame; observer is what that callback   *)
(* does: nothing, or a call of destroy().  In _drag and scrollToY the      *)
(* callback is the last statement, so a destroy() made by it is the        *)
(* Destroy step that follows.  During the callback the frame that runs is  *)
(* no longer pending, so destroy's cancelAnimationFrame withdraws nothing. *)
(***************************************************************************)
\* a tick that writes whether or not a session is open
tickWritesAlways == TRUE

\* the test of _animate that lets the tick write position and velocity
tickWrites == ~isDragging

\* _animate(timestamp) for whatever timestamp the host hands over
tick(timestamp, observer) ==
    /\ rafPending # 0
    /\ (observer # "none") => (contentH > containerH /\ tickWrites)
    /\ last' = "tick"
    /\ IF contentH <= containerH
       THEN \* returns before requestAnimationFrame: no frame is requested
            /\ rafPending' = 0
            /\ emitted' = 0
            /\ signals' = NoSignals
            /\ UNCHANGED <<containerKind, destroys>>
            /\ UNCHANGED <<readonly, containerH, contentH, isDragging,
                           _startY, currentY, velocity, transform, thumb,
                           scrollbarShow, _lastTimestamp, _animationId,
                           timers, listeners, destroyed, stats, notified,
                           session>>
       ELSE /\ _lastTimestamp' = timestamp
            /\ rafPending' = requestAnimationFrame(rafPending)
            /\ _animationId' = requestAnimationFrame(rafPending)
            /\ listeners' = IF observer = "destroy"
                            THEN removeEventListeners(listeners)
                            ELSE listeners
            /\ destroyed' = (destroyed \/ observer = "destroy")
            /\ destroys' = IF observer = "destroy"
                           THEN destroys + 1
                           ELSE destroys
            /\ IF ~tickWrites
               THEN /\ emitted' = 0
                    /\ signals' = NoSignals
                    /\ UNCHANGED containerKind
                    /\ UNCHANGED <<currentY, velocity, transform, thumb,
                                   stats, notified>>
               ELSE LET maxScroll == maxScrollOf(contentH, containerH)
                        i == inertia(currentY, velocity,
                                     elapsedMs(timestamp, _lastTimestamp),
                                     maxScroll)
                        r == applyTransform(i.currentY, i.velocity, contentH,
                                            containerH)
                    IN  /\ currentY' = r.currentY
                        /\ transform' = r.transform
                        /\ thumb' = updateScrollbar(r.currentY, contentH,
                                                    containerH, thumb)
                        /\ stats' = updateStats(r.currentY, r.velocity)
                        /\ notified' = [y |-> r.currentY,
                                        velocity |-> r.velocity]
                        /\ emitted' = 1
                        /\ signals' = NoSignals
                        /\ UNCHANGED containerKind
                        /\ velocity' = IF atRest(r.currentY, r.velocity,
                                                 maxScroll)
                                       THEN 0 ELSE r.velocity
            /\ UNCHANGED <<readonly, containerH, contentH, isDragging,
                           _startY, scrollbarShow, timers, session>>

\* the frame callback of a host whose timestamps never decrease
Animate(timestamp, observer) ==
    /\ timestamp >= _lastTimestamp
    /\ tick(timestamp, observer)

(***************************************************************************)
(* The public operations.                                                  *)
(***************************************************************************)
\* set readonly(value)
SetReadonly(value) ==
    /\ readonly' = value
    /\ session' = IF readonly # value THEN NoSession ELSE session
    /\ last' = "readonly"
    /\ emitted' = 0
    /\ signals' = NoSignals
    /\ UNCHANGED <<containerKind, destroys>>
    /\ UNCHANGED <<containerH, contentH, isDragging, _startY, currentY,
                   velocity, transform, thumb, scrollbarShow, _lastTimestamp,
                   _animationId, rafPending, timers, listeners, destroyed,
                   stats, notified>>

\* the part resize and innerHtml share: _applyTransform, _updateScrollbar
relayout(op, content, container) ==
    LET r == applyTransform(currentY, velocity, content, container) IN
    /\ contentH' = content
    /\ containerH' = container
    /\ currentY' = r.currentY
    /\ velocity' = r.velocity
    /\ transform' = r.transform
    /\ thumb' = updateScrollbar(r.currentY, content, container, thumb)
    /\ session' = NoSession
    /\ last' = op
    /\ emitted' = 0
    /\ signals' = NoSignals
    /\ UNCHANGED <<containerKind, destroys>>
    /\ UNCHANGED <<readonly, isDragging, _startY, scrollbarShow,
                   _lastTimestamp, _animationId, rafPending, timers,
                   listeners, destroyed, stats, notified>>

\* resize(width, height), the height in pixels
Resize(height) == relayout("resize", contentH, height)

\* innerHtml(html), html laid out content pixels high
InnerHtml(content) == relayout("innerHtml", content, containerH)

\* scrollToY without the range test
scrollToYUnchecked(y) ==
    LET r == applyTransform(Px(y), 0, contentH, containerH) IN
    /\ currentY' = r.currentY
    /\ velocity' = r.velocity
    /\ transform' = r.transform
    /\ thumb' = updateScrollbar(r.currentY, contentH, containerH, thumb)
    /\ stats' = updateStats(r.currentY, r.velocity)
    /\ notified' = [y |-> r.currentY, velocity |-> r.velocity]
    /\ emitted' = 1
    /\ signals' = NoSignals
    /\ UNCHANGED <<containerKind, destroys>>
    /\ session' = NoSession
    /\ last' = "scrollToY"
    /\ UNCHANGED <<readonly, containerH, contentH, isDragging, _startY,
                   scrollbarShow, _lastTimestamp, _animationId, rafPending,
                   timers, listeners, destroyed>>

\* scrollToY(y), y in pixels
ScrollToY(y) ==
    IF Px(y) < 0 \/ Px(y) > maxScrollOf(contentH, containerH)
    THEN Ignored("scrollToY")
    ELSE LET r == applyTransform(Px(y), 0, contentH, containerH) IN
         /\ currentY' = r.currentY
         /\ velocity' = r.velocity
         /\ transform' = r.transform
         /\ thumb' = updateScrollbar(r.currentY, contentH, containerH, thumb)
         /\ stats' = updateStats(r.currentY, r.velocity)
         /\ notified' = [y |-> r.currentY, velocity |-> r.velocity]
         /\ emitted' = 1
         /\ signals' = NoSignals
         /\ UNCHANGED <<containerKind, destroys>>
         /\ session' = NoSession
         /\ last' = "scrollToY"
         /\ UNCHANGED <<readonly, containerH, contentH, isDragging, _startY,
                        scrollbarShow, _lastTimestamp, _animationId,
                        rafPending, timers, listeners, destroyed>>

\* destroy(); _indicatorTimeout is never assigned, so no timeout is cleared
Destroy ==
    /\ rafPending' = IF _animationId # 0
                    THEN cancelAnimationFrame(rafPending, _animationId)
                    ELSE rafPending
    /\ _animationId' = 0
    /\ listeners' = removeEventListeners(listeners)
    /\ destroyed' = TRUE
    /\ destroys' = destroys + 1
    /\ last' = "destroy"
    /\ emitted' = 0
    /\ signals' = NoSignals
    /\ UNCHANGED containerKind
    /\ UNCHANGED <<readonly, containerH, contentH, isDragging, _startY,
                   currentY, velocity, transform, thumb, scrollbarShow,
                   _lastTimestamp, timers, stats, notified, session>>

(***************************************************************************)
(* The engine with its host: any operation, MaxSteps of them.              *)
(***************************************************************************)
Budget == steps < MaxSteps /\ steps' = steps + 1

Next ==
    \/ \E y \in Coords : Budget /\ OnMouseDown(y)
    \/ \E n \in Touches, y \in Coords : Budget /\ OnTouchStart(n, y)
    \/ \E y \in Coords : Budget /\ OnMouseMove(y)
    \/ \E n \in Touches, y \in Coords : Budget /\ OnTouchMove(n, y)
    \/ Budget /\ OnMouseUp
    \/ Budget /\ OnTouchEnd
    \/ Budget /\ HideTimer
    \/ \E t \in Times, o \in Observers : Budget /\ Animate(t, o)
    \/ \E b \in BOOLEAN : Budget /\ SetReadonly(b)
    \/ \E h \in Heights : Budget /\ Resize(h)
    \/ \E c \in Contents : Budget /\ InnerHtml(c)
    \/ \E y \in Targets : Budget /\ ScrollToY(y)
    \/ Budget /\ Destroy

Spec == Init /\ [][Next]_vars

(***************************************************************************)
(* The settling phase alone: an overflowing surface released at a position *)
(* and velocity a drag can leave, then nothing but animation frames.  The  *)
(* host runs every requested frame.                                        *)
(***************************************************************************)
SettleStarts ==
    \* <<position, velocity, last pointer coordinate>>, pixels
    {<<-60, -18, 500>>, <<-36, 0, 500>>, <<0, 0, 500>>, <<100, 30, 400>>,
     <<100, -30, 450>>, <<750, 30, 400>>, <<800, 0, 500>>, <<860, 18, 400>>}

SettleInit ==
    /\ readonly = FALSE
    /\ containerH = 400
    /\ contentH = 1200
    /\ isDragging = FALSE
    /\ \E st \in SettleStarts :
          /\ currentY = Px(st[1])
          /\ velocity = Px(st[2])
          /\ _startY = Px(st[3])
          /\ transform = -Px(st[1])
          /\ thumb = updateScrollbar(Px(st[1]), contentH, containerH,
                                     [height |-> 0, position |-> 0])
          /\ stats = updateStats(Px(st[1]), Px(st[2]))
          /\ notified = [y |-> Px(st[1]), velocity |-> Px(st[2])]
    /\ scrollbarShow = TRUE
    /\ _lastTimestamp = 0
    /\ _animationId = 1
    /\ rafPending = 1
    /\ timers = 1
    /\ listeners = addEventListeners
    /\ destroyed = FALSE
    /\ destroys = 0
    /\ last = "mouseup"
    /\ emitted = 0
    /\ signals = NoSignals
    /\ containerKind = "div"
    /\ session = NoSession
    /\ steps = 0

SettleNext ==
    /\ \E t \in Times : Animate(t, "none")
    /\ UNCHANGED steps

SettleSpec == SettleInit /\ [][SettleNext]_vars /\ WF_vars(SettleNext)

(***************************************************************************)
(* The released engine on a host whose frame timestamps come from a clock  *)
(* that can step back (requestAnimationFrame emulated over Date.now()):    *)
(* _animate takes the timestamp as it is given, for MaxSteps frames.        *)
(***************************************************************************)
SkewedNext == \E t \in Times : Budget /\ tick(t, "none")

SkewedSpec == SettleInit /\ [][SkewedNext]_vars

(***************************************************************************)
(* Construction: new DragScroll(container, options).  The constructor      *)
(* reads container.classList first, which throws a TypeError when the      *)
(* value is null or undefined; it makes no other test of what it is given, *)
(* so every element is taken as the container.  readonly, containerH and   *)
(* contentH hold the option and the extents the layout gives.              *)
(***************************************************************************)
ContainerKinds == {"div", "canvas", "video", "input", "null"}

ConstructInit ==
    /\ containerKind \in ContainerKinds
    /\ readonly \in BOOLEAN
    /\ containerH \in Heights
    /\ contentH \in Contents
    /\ isDragging = FALSE
    /\ _startY = 0
    /\ currentY = 0
    /\ velocity = 0
    /\ transform = 0
    /\ thumb = [height |-> 0, position |-> 0]
    /\ scrollbarShow = FALSE
    /\ _lastTimestamp = 0
    /\ _animationId = 0
    /\ rafPending = 0
    /\ timers = 0
    /\ listeners = {}
    /\ destroyed = FALSE
    /\ destroys = 0
    /\ last = "new"
    /\ emitted = 0
    /\ stats = NoStats
    /\ notified = NoNotice
    /\ signals = NoSignals
    /\ session = NoSession
    /\ steps = 0

Construct ==
    /\ last = "new"
    /\ IF containerKind = "null"
       THEN /\ last' = "TypeError"
            /\ UNCHANGED <<thumb, _animationId, rafPending, listeners,
                           emitted>>
       ELSE /\ last' = "init"
            /\ thumb' = updateScrollbar(0, contentH, containerH, thumb)
            /\ listeners' = addEventListeners
            /\ _animationId' = IF contentH <= containerH THEN 0 ELSE 1
            /\ rafPending' = IF contentH <= containerH THEN 0 ELSE 1
            /\ emitted' = IF contentH <= containerH THEN 0 ELSE 1
    /\ signals' = NoSignals
    /\ UNCHANGED <<containerKind, readonly, containerH, contentH, isDragging,
                   _startY, currentY, velocity, transform, scrollbarShow,
                   _lastTimestamp, timers, destroyed, destroys, stats,
                   notified, session, steps>>

ConstructSpec == ConstructInit /\ [][Construct]_vars

(***************************************************************************)
(* Properties.                                                             *)
(***************************************************************************)
DragStarts == {"mousedown", "touchstart"}
DragMoves == {"mousemove", "touchmove"}
DragEnds == {"mouseup", "touchend"}
GestureOps == DragStarts \cup DragMoves \cup DragEnds

Overflowing == contentH > containerH
InRange(y) == y >= 0 /\ y <= Px(contentH) - Px(containerH)
Clamp(x, lo, hi) == IF x < lo THEN lo ELSE IF x > hi THEN hi ELSE x

\* C1: after every dragMove the engine accepts, and for as long as the drag
\* session lasts, the velocity lies within [-maxVelocity, +maxVelocity].
C1_VelocityWithinMax ==
    (isDragging \/ (last \in DragMoves /\ emitted = 1))
        => (velocity >= -Px(30) /\ velocity <= Px(30))

\* a dragMove whose delta exceeded maxVelocity has just been clamped
C1_Witness ==
    /\ last \in DragMoves
    /\ emitted = 1
    /\ Abs(session.prev - session.cur) > Px(30)
    /\ Abs(velocity) = Px(30)

\* C2: when the content does not overflow the container, canDrag is false
\* and no gesture event and no physics tick changes the position.
C2_NoOverflowNoMove ==
    [][(contentH <= containerH)
         => /\ ~canDrag
            /\ (last' \in GestureOps \cup {"tick"} => currentY' = currentY)]_vars

\* a dragMove arrives in an open session of a writable engine whose content
\* has stopped overflowing, the position being away from 0
C2_Witness ==
    /\ contentH <= containerH
    /\ last \in DragMoves
    /\ isDragging
    /\ ~readonly
    /\ currentY # 0

\* C3: whenever the content does not overflow the container, the position
\* (currentY) is 0.
C3_PositionZeroWithoutOverflow == (contentH <= containerH) => currentY = 0

\* C4: a dragStart that arrives while a session is active changes none of
\* isDragging, startCoordinate, velocity and position.
C4_SecondStartIgnored ==
    [][(isDragging /\ last' \in DragStarts)
         => UNCHANGED <<isDragging, _startY, velocity, currentY>>]_vars

\* C5: a dragEnd that follows a dragEnd, or that arrives with no session
\* open, changes none of isDragging, position, velocity, startCoordinate.
C5_EndDragIdempotent ==
    [][(last' \in DragEnds /\ (last \in DragEnds \/ ~isDragging))
         => UNCHANGED <<isDragging, currentY, velocity, _startY>>]_vars

\* a dragEnd has closed a session of an overflowing, writable engine
C5_Witness ==
    /\ last \in DragEnds
    /\ ~isDragging
    /\ canDrag
    /\ timers > 0
    /\ velocity # 0

\* C6: with the content overflowing and no drag active, repeated physics
\* ticks reach a state at rest: velocity 0 and position in [0, maxScroll].
C6_RestConvergence ==
    <>(velocity = 0 /\ InRange(currentY))

\* C7: scrollToY(v) with 0 <= v <= maxScroll sets the position to v and the
\* velocity to 0; with v outside it changes neither and notifies nobody.
C7_ScrollToYRoundTrip ==
    [][\A y \in Targets :
          ScrollToY(y)
            => IF y >= 0 /\ y <= contentH - containerH
               THEN currentY' = Px(y) /\ velocity' = 0
               ELSE UNCHANGED <<currentY, velocity, stats>> /\ emitted' = 0]_vars

\* scrollToY(100) has been accepted
C7_Witness ==
    /\ last = "scrollToY"
    /\ emitted = 1
    /\ currentY = Px(100)
    /\ velocity = 0

\* C8: while canDrag is false, a dragStart or a dragMove changes none of
\* isDragging, position and velocity, and calls no onChange.
C8_NoDragWhenCannot ==
    [][((readonly \/ contentH <= containerH)
          /\ last' \in DragStarts \cup DragMoves)
         => /\ UNCHANGED <<isDragging, currentY, velocity>>
            /\ emitted' = 0]_vars

\* a dragMove arrives with no session open: content 300 in a container 400
C8_Witness ==
    /\ contentH = 300
    /\ containerH = 400
    /\ ~readonly
    /\ last \in DragMoves
    /\ ~isDragging

\* C9: in a session started by dragStart(y0) at position p0 whose moves kept
\* the position in [0, maxScroll], after dragMove(yn) the position is
\* p0 + (y0 - yn) and the velocity is y(n-1) - yn clamped to +-maxVelocity.
C9_DragAccumulation ==
    (session.ok /\ session.n = 1)
        => /\ currentY = session.p0 + (session.y0 - session.cur)
           /\ velocity = Clamp(session.prev - session.cur, -Px(30), Px(30))

\* container 400, content 1200, dragStart(500), moves ending 450, 400:
\* position 100, velocity 30
C9_Witness ==
    /\ containerH = 400
    /\ contentH = 1200
    /\ session.ok
    /\ session.p0 = 0
    /\ session.y0 = Px(500)
    /\ session.prev = Px(450)
    /\ session.cur = Px(400)
    /\ currentY = Px(100)
    /\ velocity = Px(30)

\* C10: no pointer event delivered after destroy() changes isDragging,
\* position or velocity, or calls an observer.
C10_NoEventsAfterDestroy ==
    [][(destroyed /\ last' \in GestureOps)
         => /\ UNCHANGED <<isDragging, currentY, velocity>>
            /\ emitted' = 0]_vars

\* C11: once destroy() has been called no animation frame is requested,
\* whether destroy was called between two callbacks or by the onChange
\* observer of a running tick.
C11_NoFrameAfterDestroy == destroyed => rafPending = 0

\* C12: when destroy() returns no hide-scrollbar timer of an earlier dragEnd
\* is left pending, so none runs after it.
C12_DestroyCancelsHideTimer == [][last' = "destroy" => timers' = 0]_vars

C14_DragSignals ==
    [][/\ (canDrag /\ \E y \in Coords : OnMouseDown(y) \/ OnTouchStart(1, y))
            => signals'.onDragStart = 1
       /\ (isDragging /\ ~isDragging' /\ last' \in DragEnds)
            => signals'.onDragEnd = 1]_vars

\* C15: every dragMove the engine accepts, and every tick that runs while no
\* session is open and the content overflows, calls onChange exactly once
\* with x = 0, y the position the operation leaves and the velocity of that
\* moment rounded to one decimal.
C15_OnChangeSnapshot ==
    [][(\/ /\ canDrag
           /\ isDragging
           /\ \E y \in Coords : OnMouseMove(y) \/ OnTouchMove(1, y)
        \/ /\ last' = "tick"
           /\ ~isDragging
           /\ contentH > containerH)
         => /\ emitted' = 1
            /\ stats'.x = 0
            /\ stats'.y = currentY'
            /\ notified'.y = currentY'
            /\ stats'.velocity % (Unit \div 10) = 0
            /\ 2 * Abs(stats'.velocity - notified'.velocity) <= Unit \div 10
            /\ last' \in DragMoves => notified'.velocity = velocity']_vars

\* a tick of the inertial motion has reported a velocity that one decimal
\* does not hold
C15_Witness ==
    /\ last = "tick"
    /\ emitted = 1
    /\ ~isDragging
    /\ contentH > containerH
    /\ velocity = notified.velocity
    /\ stats.velocity # velocity

\* C16: the scrollbar thumb is at least 20 pixels high whenever maxScroll is
\* positive and exactly 0 high whenever maxScroll is 0 or less, for every
\* pair of extents and after every resize, content replacement and change
\* of position.
C16_ThumbSize ==
    /\ contentH - containerH > 0 => thumb.height >= Px(20)
    /\ contentH - containerH <= 0 => thumb.height = 0

\* a resize has left a container whose share of the content is less than
\* 20 pixels: the thumb is held at 20
C16_Witness ==
    /\ last = "resize"
    /\ contentH > containerH
    /\ containerH * containerH < 20 * contentH
    /\ thumb.height = Px(20)

\* C17: construction with a missing container, or with an element of a kind
\* that cannot hold the content (media, canvas, form input), raises an error
\* and leaves no engine: no listener registered, no frame requested.
C17_InvalidContainerRejected ==
    (containerKind \in {"canvas", "video", "input", "null"} /\ last # "new")
        => /\ last = "TypeError"
           /\ listeners = {}
           /\ rafPending = 0

\* C18: a touch event with more than one contact point never opens a drag
\* session, and one that arrives while a session is open closes it, so that
\* later single-touch moves do not move the content.
C18_MultiTouchAborts ==
    [][(canDrag /\ \E y \in Coords : OnTouchStart(2, y) \/ OnTouchMove(2, y))
         => ~isDragging']_vars

\* C19: a physics tick that runs while a drag session is open, whatever its
\* timestamp, leaves position and velocity as they are and calls no
\* onChange.
C19_TickDuringDrag ==
    [][(isDragging /\ last' = "tick")
         => /\ UNCHANGED <<currentY, velocity>>
            /\ emitted' = 0]_vars

\* a tick 200 ms after the previous one has run in an open session whose
\* last move left a velocity and a position past the top
C19_Witness ==
    /\ last = "tick"
    /\ isDragging
    /\ contentH > containerH
    /\ _lastTimestamp = 200
    /\ velocity # 0
    /\ currentY < 0

\* C20: a dragEnd that arrives while a session is open closes it and leaves
\* position and velocity as the last dragMove left them.
C20_EndDragHandsOver ==
    [][(isDragging /\ last' \in DragEnds)
         => /\ ~isDragging'
            /\ UNCHANGED <<currentY, velocity>>]_vars

\* the same for the releases that arrive while canDrag holds
C20_HandOverWhenCanDrag ==
    [][(isDragging /\ canDrag /\ last' \in DragEnds)
         => /\ ~isDragging'
            /\ UNCHANGED <<currentY, velocity>>]_vars

\* C21: a tick that ends with the velocity set to 0 by the rest condition
\* has handed onChange a snapshot whose velocity is 0.
C21_RestBeforeNotify ==
    (last = "tick" /\ emitted = 1 /\ velocity = 0) => stats.velocity = 0

\* the elastic-overshoot rule alone: the position past a bound is pulled
\* back to bounceDamping of its overshoot, an in-range position is kept
ElasticOnly(p, maxScroll) ==
    IF p < 0 THEN Damp(p)
    ELSE IF p > maxScroll THEN maxScroll + Damp(p - maxScroll)
    ELSE p

\* C22: in a dragMove and in a tick alike, boundary resolution keeps an
\* in-range position and velocity, and corrects an out-of-range position by
\* the elastic-overshoot rule without damping the velocity as well.
C22_OneBoundaryPolicy ==
    [][LET maxScroll == maxScrollOf(contentH, containerH)
           i == inertia(currentY, velocity,
                        elapsedMs(_lastTimestamp', _lastTimestamp), maxScroll)
       IN  /\ (/\ canDrag
               /\ isDragging
               /\ \E y \in Coords : OnMouseMove(y) \/ OnTouchMove(1, y))
                => /\ currentY' = ElasticOnly(currentY + (_startY - _startY'),
                                              maxScroll)
                   /\ velocity' = Clamp(_startY - _startY', -Px(30), Px(30))
           /\ (last' = "tick" /\ ~isDragging /\ contentH > containerH)
                => /\ currentY' = ElasticOnly(i.currentY, maxScroll)
                   /\ velocity' \in {i.velocity, 0}]_vars

\* C23: every operation that changes the position calls onChange, so the y
\* of the latest snapshot is always the current position.
C23_SnapshotFollowsPosition == stats.y = currentY

\* C24: the spring term of every tick uses deltaTime =
\* clamp(elapsed milliseconds, 0, 100) / 16, whether the timestamp equals the
\* previous one, lies more than 100 ms after it, or lies before it.
C24_DeltaTimeClamped ==
    [][(last' = "tick" /\ ~isDragging /\ contentH > containerH)
         => LET maxScroll == maxScrollOf(contentH, containerH)
                gap == _lastTimestamp' - (IF _lastTimestamp = 0
                                          THEN _lastTimestamp'
                                          ELSE _lastTimestamp)
                i == inertia(currentY, velocity, Clamp(gap, 0, 100),
                             maxScroll)
                r == applyTransform(i.currentY, i.velocity, contentH,
                                    containerH)
            IN  /\ currentY' = r.currentY
                /\ velocity' = IF atRest(r.currentY, r.velocity, maxScroll)
                               THEN 0 ELSE r.velocity]_vars

\* C25: until destroy() is called the animation loop never stops: the
\* construction and every tick, also one that finds the content not
\* overflowing, leave a frame requested.
C25_LoopNeverStops == ~destroyed => rafPending # 0

\* C26: every mouseup or touchend that arrives while a session is open
\* closes it, whatever canDrag is at that moment.
C26_ReleaseEndsSession ==
    [][(isDragging /\ last' \in DragEnds) => ~isDragging']_vars
====
